---- MODULE Spec2Model ----
(***************************************************************************)
(* The two logging shims of tsong: alsa_log_stub (src/alsalog.c) and       *)
(* ffmpeg_log_stub (src/fflog.c).  Each renders a printf-style message    *)
(* into a 1024-byte automatic buffer with vsnprintf and hands the buffer, *)
(* with the call-site metadata, to a backend ("sink") defined elsewhere.  *)
(*                                                                         *)
(* Memory is modelled byte by byte: a thread's stack region holds the      *)
(* buffer of the running stub followed by a few bytes of other stack data, *)
(* and keeps its contents from one call to the next, as a real stack does. *)
(***************************************************************************)
EXTENDS Integers, Sequences, FiniteSets, TLC

(* ----------------------------- bounds --------------------------------- *)

\* number of threads that may be inside a stub at once
NumThreads == 2
\* number of stub calls in one behaviour of Spec
MaxCalls == 1
\* number of stub calls in one behaviour of SpecSeq
MaxSeq == 3
\* number of stub calls in one behaviour of SpecMany
MaxMany == 2
\* bytes of other stack data modelled after the buffer
RedZone == 2
\* length of the directive-free literal template of the long-message case
LiteralLen == 2000
\* width of a pointer and of uintptr_t, in bits
PtrBits == 16

(* ------------------------- program constants -------------------------- *)

\* char buf[1024] in alsa_log_stub
AlsaBufSize == 1024
\* char buf[1024] in ffmpeg_log_stub
FfBufSize == 1024
\* the capacity the callers of both stubs count on, terminator included
Capacity == 1024

(* ------------------------------ bytes --------------------------------- *)

\* Byte values with a meaning to the code.  indet is the content of memory
\* nothing has written yet; guard is the content of the stack data that
\* follows the buffer.  Both lie outside the range of a char.
Ch == [nul |-> 0, space |-> 32, pct |-> 37, star |-> 42, minus |-> 45,
       zero |-> 48, c |-> 99, d |-> 100, l |-> 108, s |-> 115,
       indet |-> 256, guard |-> 257]

Threads == 1..NumThreads

(* --------------------------- string memory ---------------------------- *)

\* The directive-free template: LiteralLen letters, each position telling
\* itself from its neighbours.
LongLiteral == [x \in 1..LiteralLen |-> 97 + (x % 26)]

\* The constant strings the callers pass, by address.  A template is read by
\* vsnprintf; "key" is the target of a %s argument.
Strings ==
  [ fmt_items  |-> <<37, 100, 32, 105, 116, 101, 109, 115>>,   \* "%d items"
    fmt_pad    |-> <<37, 42, 100>>,                            \* "%*d"
    fmt_empty  |-> << >>,                                      \* ""
    fmt_kv     |-> <<37, 115, 61, 37, 108, 99, 37, 37>>,       \* "%s=%lc%%"
    fmt_long   |-> LongLiteral ]

\* %s arguments are addresses of NUL-terminated strings.
StrArg(addr) == IF addr = 4096 THEN <<107, 101, 121>> ELSE << >>   \* "key"

(* ----------------------- the formatting primitive --------------------- *)

RECURSIVE Digits(_)
\* decimal digits of a natural number, most significant first
Digits(n) == IF n < 10 THEN <<Ch.zero + n>>
             ELSE Append(Digits(n \div 10), Ch.zero + (n % 10))

\* %d of an int
Decimal(v) == IF v < 0 THEN <<Ch.minus>> \o Digits(-v) ELSE Digits(v)

Spaces(k) == [x \in 1..k |-> Ch.space]

\* %*d: right-justified in a field of w columns; a negative w is the '-'
\* flag with width -w (left-justified)
Padded(w, v) ==
  LET body == Decimal(v)
      aw   == IF w < 0 THEN -w ELSE w
      fill == IF aw > Len(body) THEN Spaces(aw - Len(body)) ELSE << >>
  IN  IF w < 0 THEN body \o fill ELSE fill \o body

\* index of the first '%' of tpl at or after i, Len(tpl) + 1 when none
NextPct(tpl, i) ==
  LET hits == {k \in i..Len(tpl) : tpl[k] = Ch.pct}
  IN  IF hits = {} THEN Len(tpl) + 1
      ELSE CHOOSE k \in hits : \A m \in hits : k <= m

\* A wide character converts in the "C" locale iff it is ASCII; otherwise
\* the conversion fails with EILSEQ.
WideOk(wc) == wc >= 0 /\ wc < 128

RECURSIVE vformat(_, _, _, _)
\* The unbounded rendering of template tpl from position i with the
\* arguments args from position j: [ok, out].  ok is FALSE when a directive
\* fails; out is then what had been produced before the failure.
vformat(tpl, i, args, j) ==
  IF i > Len(tpl) THEN [ok |-> TRUE, out |-> << >>]
  ELSE IF tpl[i] # Ch.pct
  THEN LET k == NextPct(tpl, i)
           r == vformat(tpl, k, args, j)
       IN  [ok |-> r.ok, out |-> SubSeq(tpl, i, k - 1) \o r.out]
  ELSE IF i + 1 > Len(tpl) THEN [ok |-> FALSE, out |-> << >>]
  ELSE IF tpl[i + 1] = Ch.pct
  THEN LET r == vformat(tpl, i + 2, args, j)
       IN  [ok |-> r.ok, out |-> <<Ch.pct>> \o r.out]
  ELSE IF tpl[i + 1] = Ch.d
  THEN LET r == vformat(tpl, i + 2, args, j + 1)
       IN  [ok |-> r.ok, out |-> Decimal(args[j]) \o r.out]
  ELSE IF tpl[i + 1] = Ch.s
  THEN LET r == vformat(tpl, i + 2, args, j + 1)
       IN  [ok |-> r.ok, out |-> StrArg(args[j]) \o r.out]
  ELSE IF tpl[i + 1] = Ch.star /\ i + 2 <= Len(tpl) /\ tpl[i + 2] = Ch.d
  THEN LET r == vformat(tpl, i + 3, args, j + 2)
       IN  [ok |-> r.ok, out |-> Padded(args[j], args[j + 1]) \o r.out]
  ELSE IF tpl[i + 1] = Ch.l /\ i + 2 <= Len(tpl) /\ tpl[i + 2] = Ch.c
  THEN IF WideOk(args[j])
       THEN LET r == vformat(tpl, i + 3, args, j + 1)
            IN  [ok |-> r.ok, out |-> <<args[j]>> \o r.out]
       ELSE [ok |-> FALSE, out |-> << >>]
  ELSE [ok |-> FALSE, out |-> << >>]

\* vsnprintf(s, n, format, arg) on the memory mem, s being mem's first byte:
\* the bytes of the rendering beyond the n-1st are discarded, and a NUL is
\* written after the bytes stored; with n = 0 nothing is written.  ret is
\* the length the full rendering has, or negative when a directive failed.
vsnprintf(mem, n, format, arg) ==
  LET r == vformat(Strings[format], 1, arg, 1)
      k == IF Len(r.out) < n THEN Len(r.out) ELSE n - 1
  IN  [mem |-> IF n = 0 THEN mem
               ELSE SubSeq(SubSeq(r.out, 1, k) \o <<Ch.nul>>
                             \o SubSeq(mem, k + 2, Len(mem)),
                           1, Len(mem)),
       ret |-> IF r.ok THEN Len(r.out) ELSE -1]

\* The C string that starts at mem's first byte, as a reader of it sees it:
\* the bytes before the first NUL.  A reader that meets no NUL runs through
\* all of mem.
CString(mem) ==
  LET nuls == {k \in 1..Len(mem) : mem[k] = Ch.nul}
  IN  IF nuls = {} THEN mem
      ELSE SubSeq(mem, 1, (CHOOSE k \in nuls : \A m \in nuls : k <= m) - 1)

(* ------------------------------ inputs -------------------------------- *)

\* What the callers pass as (format, variadic arguments).  The widths are
\* chosen around the capacity of the buffer.
Cases ==
  { [format |-> "fmt_items", arg |-> <<5>>],                    \* "5 items"
    [format |-> "fmt_empty", arg |-> << >>],                    \* ""
    [format |-> "fmt_long",  arg |-> << >>],                    \* LiteralLen letters
    [format |-> "fmt_pad",   arg |-> <<Capacity - 1, 7>>],      \* capacity - 1 bytes
    [format |-> "fmt_pad",   arg |-> <<Capacity, -7>>],         \* capacity bytes
    [format |-> "fmt_kv",    arg |-> <<4096, 65>>],             \* "key=A%"
    [format |-> "fmt_kv",    arg |-> <<4096, 8364>>] }          \* %lc fails

\* The cases of the specification of concurrent calls: one that fits, one
\* that is truncated, one whose formatting fails.
FewCases ==
  { c \in Cases : \/ c.format \in {"fmt_items", "fmt_long"}
                  \/ (c.format = "fmt_kv" /\ ~WideOk(c.arg[2])) }

\* The cases of the specification of calls in sequence: those, and the two
\* around the capacity.
SeqCases == FewCases \cup {c \in Cases : c.format = "fmt_pad"}

\* (file, line, function, errno) as the ALSA library's error macro passes them
AlsaOrigins ==
  { [file |-> "pcm.c",  line |-> 2489, function |-> "snd_pcm_open",    errno |-> 2],
    [file |-> "conf.c", line |-> 0,    function |-> "snd_config_load", errno |-> -22] }

\* (ptr, level) as libav's log callback passes them; ptr may be null
FfOrigins ==
  { [ptr |-> 0,              level |-> 16],
    [ptr |-> 2^PtrBits - 1,  level |-> -8] }

(* ------------------------------- state -------------------------------- *)

VARIABLES
  pc,        \* pc[t]: where thread t is in the stub it runs
  local,     \* local[t]: the parameters of the stub call thread t is in
  stack,     \* stack[t]: thread t's stack region: the buffer, then other data
  sinkLog,   \* the calls the two backends have received, in order
  done,      \* the stub calls that have returned
  calls      \* calls[k]: the k-th stub call: which stub, what the caller
             \* passed, on which thread

vars == <<pc, local, stack, sinkLog, done, calls>>

\* number of stub calls begun
nCalls == Len(calls)

NoCall == [id |-> 0, fn |-> "none"]

\* A stack region nothing has written yet: a buffer's worth of indeterminate
\* bytes, then the stack data that follows the buffer.
FreshStack(size) ==
  [x \in 1..(size + RedZone) |-> IF x <= size THEN Ch.indet ELSE Ch.guard]

\* A stack region an earlier activation has used: what a stub that logged the
\* long literal leaves behind.
UsedStack(size) == vsnprintf(FreshStack(size), size, "fmt_long", << >>).mem

\* No stub is running.  The stacks hold any of the given contents.
Start(stacks) ==
  /\ pc = [t \in Threads |-> "idle"]
  /\ local = [t \in Threads |-> NoCall]
  /\ \E m \in stacks : stack = [t \in Threads |-> m]
  /\ sinkLog = << >>
  /\ done = {}
  /\ calls = << >>

Init == Start({FreshStack(AlsaBufSize), UsedStack(AlsaBufSize)})

InitMany == Start({FreshStack(AlsaBufSize)})

(* ---------------------------- alsa_log_stub --------------------------- *)

\* Threads are alike, so they are numbered in the order of their first call:
\* thread t calls a stub only when every thread before it has.
Numbered(t) ==
  \A u \in Threads : u < t => \E k \in DOMAIN calls : calls[k].by = u

\* (mutation of BufOwner: buf declared static, one buffer for every call)
BufOwner_static(t) == CHOOSE u \in Threads : \A v \in Threads : u <= v

\* buf is an automatic array: the buffer of the call thread t runs lies in
\* thread t's own stack.
BufOwner(t) == t

\* (mutation of AlsaSizeArg: sizeof(buf) - 1)
AlsaSizeArg_short == AlsaBufSize - 1

\* (mutation of AlsaSizeArg: sizeof(buf) + 1)
AlsaSizeArg_over == AlsaBufSize + 1

\* the size alsa_log_stub tells vsnprintf: sizeof(buf)
AlsaSizeArg == AlsaBufSize

\* (mutation of AlsaBackendArgs: line and errno change places)
AlsaBackendArgs_swapped(in, msg) == <<in.file, in.errno, in.function, in.line, msg>>

\* the argument list of alsa_log_backend(file, line, function, errno, buf)
AlsaBackendArgs(in, msg) == <<in.file, in.line, in.function, in.errno, msg>>

\* A caller enters alsa_log_stub(file, line, function, errno, format, ...).
AlsaCall(t, limit, origins, cases) ==
  /\ pc[t] = "idle"
  /\ nCalls < limit
  /\ Numbered(t)
  /\ \E o \in origins, c \in cases :
       LET in == [file |-> o.file, line |-> o.line, function |-> o.function,
                  errno |-> o.errno, format |-> c.format, arg |-> c.arg]
       IN  /\ local' = [local EXCEPT ![t] =
                          [id |-> nCalls + 1, fn |-> "alsa_log_stub", in |-> in]]
           /\ calls' = Append(calls, [fn |-> "alsa_log_stub", in |-> in, by |-> t])
  /\ pc' = [pc EXCEPT ![t] = "invoked"]
  /\ UNCHANGED <<stack, sinkLog, done>>

\* (mutation of AlsaRender: the stub returns early when vsnprintf reports a
\* failure, without forwarding)
AlsaRender_bail(t) ==
  /\ pc[t] = "invoked"
  /\ local[t].fn = "alsa_log_stub"
  /\ LET r == vsnprintf(stack[t], AlsaBufSize, local[t].in.format, local[t].in.arg)
     IN  /\ stack' = [stack EXCEPT ![t] = r.mem]
         /\ pc' = [pc EXCEPT ![t] = IF r.ret < 0 THEN "sink_done" ELSE "rendered"]
  /\ UNCHANGED <<local, sinkLog, done, calls>>

\* (mutation of AlsaRender: the rendered bytes are stored without a
\* terminator)
AlsaRender_noterm(t) ==
  /\ pc[t] = "invoked"
  /\ local[t].fn = "alsa_log_stub"
  /\ LET out == vformat(Strings[local[t].in.format], 1, local[t].in.arg, 1).out
         k   == IF Len(out) < AlsaBufSize THEN Len(out) ELSE AlsaBufSize
     IN  stack' = [stack EXCEPT ![t] =
                     SubSeq(out, 1, k) \o SubSeq(stack[t], k + 1, Len(stack[t]))]
  /\ pc' = [pc EXCEPT ![t] = "rendered"]
  /\ UNCHANGED <<local, sinkLog, done, calls>>

\* va_start; vsnprintf(buf, sizeof(buf), format, arg); va_end.  The value
\* vsnprintf returns is not looked at.
AlsaRender(t) ==
  /\ pc[t] = "invoked"
  /\ local[t].fn = "alsa_log_stub"
  /\ stack' = [stack EXCEPT ![BufOwner(t)] =
                 vsnprintf(stack[BufOwner(t)], AlsaSizeArg,
                           local[t].in.format, local[t].in.arg).mem]
  /\ pc' = [pc EXCEPT ![t] = "rendered"]
  /\ UNCHANGED <<local, sinkLog, done, calls>>

\* (mutation of AlsaForward: the backend is called twice)
AlsaForward_twice(t) ==
  /\ pc[t] = "rendered"
  /\ local[t].fn = "alsa_log_stub"
  /\ LET r == [sink |-> "alsa_log_backend",
               args |-> AlsaBackendArgs(local[t].in, CString(stack[BufOwner(t)])),
               id |-> local[t].id]
     IN  sinkLog' = sinkLog \o <<r, r>>
  /\ pc' = [pc EXCEPT ![t] = "in_sink"]
  /\ UNCHANGED <<local, stack, done, calls>>

\* alsa_log_backend(file, line, function, errno, buf) is entered; the backend
\* reads buf as a C string.
AlsaForward(t) ==
  /\ pc[t] = "rendered"
  /\ local[t].fn = "alsa_log_stub"
  /\ sinkLog' = Append(sinkLog,
                  [sink |-> "alsa_log_backend",
                   args |-> AlsaBackendArgs(local[t].in, CString(stack[BufOwner(t)])),
                   id |-> local[t].id])
  /\ pc' = [pc EXCEPT ![t] = "in_sink"]
  /\ UNCHANGED <<local, stack, done, calls>>

(* --------------------------- ffmpeg_log_stub -------------------------- *)

\* (mutation of FfSizeArg: sizeof(buf) - 1)
FfSizeArg_short == FfBufSize - 1

\* the size ffmpeg_log_stub tells vsnprintf: sizeof(buf)
FfSizeArg == FfBufSize

\* (mutation of ToUintptr: the pointer is cast to an integer half as wide)
ToUintptr_narrow(ptr) == ptr % (2^(PtrBits \div 2))

\* (uintptr_t)ptr: the pointer's value as an unsigned integer of PtrBits bits
ToUintptr(ptr) == ptr % (2^PtrBits)

\* the argument list of ffmpeg_log_backend((uintptr_t)ptr, level, buf)
FfBackendArgs(in, msg) == <<ToUintptr(in.ptr), in.level, msg>>

\* A caller enters ffmpeg_log_stub(ptr, level, format, arg).
FfCall(t, limit, origins, cases) ==
  /\ pc[t] = "idle"
  /\ nCalls < limit
  /\ Numbered(t)
  /\ \E o \in origins, c \in cases :
       LET in == [ptr |-> o.ptr, level |-> o.level,
                  format |-> c.format, arg |-> c.arg]
       IN  /\ local' = [local EXCEPT ![t] =
                          [id |-> nCalls + 1, fn |-> "ffmpeg_log_stub", in |-> in]]
           /\ calls' = Append(calls, [fn |-> "ffmpeg_log_stub", in |-> in, by |-> t])
  /\ pc' = [pc EXCEPT ![t] = "invoked"]
  /\ UNCHANGED <<stack, sinkLog, done>>

\* vsnprintf(buf, sizeof(buf), format, arg); its value is not looked at.
FfRender(t) ==
  /\ pc[t] = "invoked"
  /\ local[t].fn = "ffmpeg_log_stub"
  /\ stack' = [stack EXCEPT ![BufOwner(t)] =
                 vsnprintf(stack[BufOwner(t)], FfSizeArg,
                           local[t].in.format, local[t].in.arg).mem]
  /\ pc' = [pc EXCEPT ![t] = "rendered"]
  /\ UNCHANGED <<local, sinkLog, done, calls>>

\* ffmpeg_log_backend((uintptr_t)ptr, level, buf) is entered.
FfForward(t) ==
  /\ pc[t] = "rendered"
  /\ local[t].fn = "ffmpeg_log_stub"
  /\ sinkLog' = Append(sinkLog,
                  [sink |-> "ffmpeg_log_backend",
                   args |-> FfBackendArgs(local[t].in, CString(stack[BufOwner(t)])),
                   id |-> local[t].id])
  /\ pc' = [pc EXCEPT ![t] = "in_sink"]
  /\ UNCHANGED <<local, stack, done, calls>>

(* ------------------------- backend and return ------------------------- *)

\* The backend thread t is in returns.  Nothing makes it: the backend is
\* code outside the stubs and may block for as long as it likes.
SinkReturn(t) ==
  /\ pc[t] = "in_sink"
  /\ pc' = [pc EXCEPT ![t] = "sink_done"]
  /\ UNCHANGED <<local, stack, sinkLog, done, calls>>

\* (mutation of StubReturn: the stub hands the message off and returns while
\* the backend is still running)
StubReturn_early(t) ==
  /\ pc[t] \in {"in_sink", "sink_done"}
  /\ done' = done \cup {local[t].id}
  /\ local' = [local EXCEPT ![t] = NoCall]
  /\ pc' = [pc EXCEPT ![t] = "idle"]
  /\ UNCHANGED <<stack, sinkLog, calls>>

\* The stub falls off its end and returns (void) to its caller.  The buffer
\* goes out of scope; the bytes stay in the stack.
StubReturn(t) ==
  /\ pc[t] = "sink_done"
  /\ done' = done \cup {local[t].id}
  /\ local' = [local EXCEPT ![t] = NoCall]
  /\ pc' = [pc EXCEPT ![t] = "idle"]
  /\ UNCHANGED <<stack, sinkLog, calls>>

(* --------------------------- specifications --------------------------- *)

Step(threads, limit, alsaOrigins, ffOrigins, cases) ==
  \E t \in threads :
    \/ AlsaCall(t, limit, alsaOrigins, cases)
    \/ AlsaRender(t)
    \/ AlsaForward(t)
    \/ FfCall(t, limit, ffOrigins, cases)
    \/ FfRender(t)
    \/ FfForward(t)
    \/ SinkReturn(t)
    \/ StubReturn(t)

\* the thread of the single-threaded specifications: the first
Solo == {t \in Threads : \A u \in Threads : t <= u}

Next == Step(Solo, MaxCalls, AlsaOrigins, FfOrigins, Cases)

\* one thread, one stack used or not, every input, MaxCalls calls one after
\* the other
Spec == Init /\ [][Next]_vars

\* the origins of the specifications of several calls
FewAlsaOrigins == {o \in AlsaOrigins : o.errno > 0}
FewFfOrigins == {o \in FfOrigins : o.ptr = 0}

NextSeq == Step(Solo, MaxSeq, FewAlsaOrigins, FewFfOrigins, SeqCases)

\* one thread, a fresh stack, MaxSeq calls of some inputs one after the other
SpecSeq == InitMany /\ [][NextSeq]_vars

NextMany == Step(Threads, MaxMany, FewAlsaOrigins, FewFfOrigins, FewCases)

\* every thread, fresh stacks, MaxMany calls of few inputs, one after the
\* other or at once
SpecMany == InitMany /\ [][NextMany]_vars

(* ------------------------ vocabulary of the claims -------------------- *)

\* the call a backend invocation belongs to, and what its caller passed
CallOf(r) == calls[r.id]
\* the message a backend invocation received: its last argument
Msg(r) == r.args[Len(r.args)]
\* the unbounded formatting of every template with its arguments, tabulated
Renderings == [c \in Cases |-> vformat(Strings[c.format], 1, c.arg, 1)]
\* the unbounded formatting of a call's template with its arguments
Unbounded(in) == Renderings[[format |-> in.format, arg |-> in.arg]]
\* the first Capacity - 1 bytes of a text, the whole of it if it is shorter
Bounded(text) ==
  IF Len(text) <= Capacity - 1 THEN text ELSE SubSeq(text, 1, Capacity - 1)
\* the backend that belongs to a stub
SinkOf(fn) == IF fn = "alsa_log_stub" THEN "alsa_log_backend" ELSE "ffmpeg_log_backend"
Records == {sinkLog[i] : i \in DOMAIN sinkLog}
RecordsOf(id) == {i \in DOMAIN sinkLog : sinkLog[i].id = id}
\* the threads whose stub has rendered and not yet returned
Rendered == {t \in Threads : pc[t] \in {"rendered", "in_sink", "sink_done"}}
\* the bytes after the buffer are the stack data they were
GuardIntact(mem) == \A x \in (Capacity + 1)..Len(mem) : mem[x] = Ch.guard
\* the templates whose rendering exceeds the buffer
IsLong(in) == Unbounded(in).ok /\ Len(Unbounded(in).out) > Capacity - 1
IsShort(in) == Unbounded(in).ok /\ Len(Unbounded(in).out) <= Capacity - 1

(* ------------------------------- claims ------------------------------- *)

\* C1: when the unbounded formatting is longer than 1023 bytes, the backend
\* of either stub receives exactly its first 1023 bytes, the buffer holds
\* them followed by a NUL in its last byte, and no byte after the buffer is
\* written.
C1_Truncation ==
  /\ \A r \in Records :
       IsLong(CallOf(r).in) =>
         Msg(r) = SubSeq(Unbounded(CallOf(r).in).out, 1, Capacity - 1)
  /\ \A t \in Rendered :
       IsLong(local[t].in) =>
         /\ SubSeq(stack[t], 1, Capacity - 1)
              = SubSeq(Unbounded(local[t].in).out, 1, Capacity - 1)
         /\ stack[t][Capacity] = Ch.nul
         /\ GuardIntact(stack[t])

\* ffmpeg_log_backend has received the first 1023 letters of the long literal
C1_Witness ==
  \E r \in Records :
    /\ r.sink = "ffmpeg_log_backend"
    /\ CallOf(r).in.format = "fmt_long"
    /\ Len(Unbounded(CallOf(r).in).out) = LiteralLen
    /\ Len(Msg(r)) = Capacity - 1

\* C2: when the unbounded formatting is at most 1023 bytes long, the empty
\* result included, the backend of either stub receives exactly it.
C2_NoTruncation ==
  \A r \in Records :
    IsShort(CallOf(r).in) => Msg(r) = Unbounded(CallOf(r).in).out

\* alsa_log_backend has received a message of exactly 1023 bytes
C2_Witness ==
  \E r \in Records :
    /\ r.sink = "alsa_log_backend"
    /\ IsShort(CallOf(r).in)
    /\ Len(Msg(r)) = Capacity - 1

\* C3: every stub call invokes its own backend exactly once before it
\* returns: no invocation before the forwarding step, one from then on, on
\* the backend of the stub that was called.
C3_ExactlyOnce ==
  /\ \A id \in done : Cardinality(RecordsOf(id)) = 1
  /\ \A t \in Threads :
       /\ pc[t] \in {"invoked", "rendered"} => RecordsOf(local[t].id) = {}
       /\ pc[t] \in {"in_sink", "sink_done"} => Cardinality(RecordsOf(local[t].id)) = 1
  /\ \A r \in Records : r.id \in 1..nCalls /\ r.sink = SinkOf(CallOf(r).fn)

\* calls of both stubs have returned, one of them with a truncated message
C3_Witness ==
  /\ \E a, b \in done : calls[a].fn = "alsa_log_stub" /\ calls[b].fn = "ffmpeg_log_stub"
  /\ \E id \in done : IsLong(calls[id].in)
  /\ Len(sinkLog) = Cardinality(done)

\* C4: alsa_log_backend receives (file, line, function, errno, message), the
\* first four as alsa_log_stub received them.
C4_AlsaMetadata ==
  \A r \in Records :
    r.sink = "alsa_log_backend" =>
      /\ Len(r.args) = 5
      /\ r.args[1] = CallOf(r).in.file
      /\ r.args[2] = CallOf(r).in.line
      /\ r.args[3] = CallOf(r).in.function
      /\ r.args[4] = CallOf(r).in.errno

\* alsa_log_backend has been invoked for a call whose message was truncated
C4_Witness ==
  \E r \in Records :
    /\ r.sink = "alsa_log_backend"
    /\ CallOf(r).in.line # CallOf(r).in.errno
    /\ IsLong(CallOf(r).in)

\* C5: ffmpeg_log_backend receives (handle, level, message), the handle being
\* the integer of the pointer's value and the level the one received; a call
\* with a null handle is never stuck inside the stub.
C5_FfMetadata ==
  /\ \A r \in Records :
       r.sink = "ffmpeg_log_backend" =>
         /\ Len(r.args) = 3
         /\ r.args[1] = CallOf(r).in.ptr
         /\ r.args[2] = CallOf(r).in.level
  /\ \A t \in Threads :
       (local[t].fn = "ffmpeg_log_stub" /\ local[t].in.ptr = 0) =>
         ENABLED (FfRender(t) \/ FfForward(t) \/ SinkReturn(t) \/ StubReturn(t))

\* a call with a null handle has handed 0 to ffmpeg_log_backend and returned
C5_Witness ==
  \E r \in Records :
       /\ r.sink = "ffmpeg_log_backend"
       /\ CallOf(r).in.ptr = 0
       /\ r.args[1] = 0
       /\ r.id \in done

\* bytes a char holds, NUL excluded
IsText(msg) == \A k \in DOMAIN msg : msg[k] >= 1 /\ msg[k] <= 255

\* C6: whatever the formatting does, its failure included, the backend
\* receives a terminated string of written bytes, at most 1023 of them, and
\* the stub goes on to forward and return.
C6_AlwaysBounded ==
  /\ \A r \in Records : Len(Msg(r)) <= Capacity - 1 /\ IsText(Msg(r))
  /\ \A t \in Rendered : \E k \in 1..Capacity : stack[t][k] = Ch.nul
  /\ \A t \in Threads : pc[t] \in {"in_sink", "sink_done"} => RecordsOf(local[t].id) # {}
  /\ \A id \in done : RecordsOf(id) # {}
  /\ \A t \in Threads :
       pc[t] # "idle" =>
         ENABLED (AlsaRender(t) \/ AlsaForward(t) \/ FfRender(t) \/ FfForward(t)
                    \/ SinkReturn(t) \/ StubReturn(t))

\* a call whose %lc directive failed has handed "key=" to its backend, over
\* the remains of an earlier message, and returned
C6_Witness ==
  \E r \in Records :
    /\ ~Unbounded(CallOf(r).in).ok
    /\ Msg(r) = <<107, 101, 121, 61>>
    /\ r.id \in done
    /\ \E t \in Threads : stack[t][Capacity] = Ch.nul

\* C7: the rendered message never takes more than the 1024 bytes of the
\* buffer: the backend sees at most 1023 bytes, a NUL lies within the buffer
\* from the end of rendering to the return, and the bytes after the buffer
\* are never written.
C7_WithinCapacity ==
  /\ \A r \in Records : Len(Msg(r)) < Capacity
  /\ \A t \in Rendered : \E k \in 1..Capacity : stack[t][k] = Ch.nul
  /\ \A t \in Threads : GuardIntact(stack[t])

\* a truncated message is in its backend's hands while the NUL sits in the
\* last byte of the buffer
C7_Witness ==
  \E t \in Threads :
    /\ pc[t] = "in_sink"
    /\ IsLong(local[t].in)
    /\ \E k \in DOMAIN calls : IsShort(calls[k].in)
    /\ stack[t][Capacity] = Ch.nul
    /\ stack[t][Capacity - 1] # Ch.nul
    /\ nCalls > 1

\* what the backend of a call is to receive
OwnArgs(c) ==
  IF c.fn = "alsa_log_stub"
  THEN <<c.in.file, c.in.line, c.in.function, c.in.errno, Bounded(Unbounded(c.in).out)>>
  ELSE <<c.in.ptr, c.in.level, Bounded(Unbounded(c.in).out)>>

\* C8: under every interleaving of the calls in flight, each backend
\* invocation receives the metadata and the rendering of its own call, and
\* the buffer of a call holds its own rendering until the call returns.
C8_NoInterference ==
  /\ \A r \in Records : r.args = OwnArgs(CallOf(r))
  /\ \A t \in Rendered :
       CString(stack[t]) = Bounded(Unbounded(local[t].in).out)

\* two calls with different messages, one of them truncated, are inside
\* their backends at the same time
C8_Witness ==
  \E t, u \in Threads :
    /\ pc[t] = "in_sink" /\ pc[u] = "in_sink"
    /\ IsLong(local[t].in)
    /\ IsShort(local[u].in)

\* two calls of the same stub with the same inputs
SameCall(a, b) == a.fn = b.fn /\ a.in = b.in

\* C9: two calls of the same stub with the same inputs hand their backend the
\* same arguments, whatever was called before or in between.
C9_NoRetainedState ==
  \A r, q \in Records :
    SameCall(CallOf(r), CallOf(q)) => r.args = q.args

\* the same call was made before and after a call with a truncated message,
\* and the backend has received both
C9_Witness ==
  \E r, q \in Records :
    /\ r.id + 1 < q.id
    /\ SameCall(CallOf(r), CallOf(q))
    /\ IsShort(CallOf(r).in)
    /\ IsLong(calls[r.id + 1].in)
    /\ RecordsOf(r.id + 1) # {}

\* the steps a thread takes through a stub, in order
Order == { <<"idle", "invoked">>, <<"invoked", "rendered">>,
           <<"rendered", "in_sink">>, <<"in_sink", "sink_done">>,
           <<"sink_done", "idle">> }

\* C10: a call goes through invoked, rendered, backend called, backend
\* returned, returned, in this order: the buffer is written only by the
\* rendering step, the backend is entered only after it, and the stub returns
\* only after the backend has.
C10_Order ==
  [][ /\ \A t \in Threads : pc'[t] # pc[t] => <<pc[t], pc'[t]>> \in Order
      /\ stack' # stack =>
           \E t \in Threads : pc[t] = "invoked" /\ pc'[t] = "rendered"
      /\ sinkLog' # sinkLog =>
           \E t \in Threads :
             /\ pc[t] = "rendered" /\ pc'[t] = "in_sink"
             /\ Len(sinkLog') = Len(sinkLog) + 1
             /\ sinkLog'[Len(sinkLog')].id = local[t].id
      /\ done' # done =>
           \E t \in Threads :
             /\ pc[t] = "sink_done" /\ pc'[t] = "idle"
             /\ done' = done \cup {local[t].id}
    ]_vars

\* one call has returned while another is still inside its backend
C10_Witness ==
  /\ done # {}
  /\ \E t \in Threads : pc[t] = "in_sink"

====
